---- MODULE Spec2Model ----
(***************************************************************************)
(* A model of alexandria's session pool (alexandria/pool.py) and of the     *)
(* routing-table manager's daemons (alexandria/routing_table_manager.py).   *)
(*                                                                         *)
(* Node ids are small positive integers, session UUIDs are drawn from a     *)
(* counter (uuid4 values never repeat in practice), and time.monotonic()    *)
(* is an integer clock.                                                     *)
(***************************************************************************)
EXTENDS Integers, Sequences, FiniteSets, TLC

\* ------------------------------------------------------------------ bounds
MaxNodeId == 6          \* largest remote node id of the model
MaxRemotes == 2         \* remote nodes the pool talks to
MaxSessions == 3        \* sessions ever constructed in one run
MaxTime == 3            \* last value of the monotonic clock
BucketSize == 2         \* K, the capacity of a bucket and of its replacement cache
MaxInbox == 1           \* messages waiting in one subscription
MaxVerifying == 1       \* _verify_node tasks running for one node at a time
MaxMessages == 3        \* messages one session accepts, and messages it receives

\* alexandria.constants.SESSION_IDLE_TIMEOUT, in clock ticks of the model
SESSION_IDLE_TIMEOUT == 2

\* Pool.local_node_id / Client.local_node: the local node's id. Remote ids
\* start at 3, so that log distance 2 holds one remote node and log distance 3
\* the others
local_node_id == 0
NodeID == 3..MaxNodeId
UUID == 1..MaxSessions
\* the remote nodes of the pool's sessions
Remote == 3..(2 + MaxRemotes)
\* the nodes that send requests, the request ids and the enr_seq they use
Requester == {3, 4}
RequestID == {1, 2}
EnrSeq == {0, 1}
\* the senders of FindNodes, each with the request id it uses
FindNodesSender == {<<3, 1>>, <<4, 2>>}
\* the nodes the table learns of by itself, and the nodes lookups discover
Talking == {4}
\* the nodes that come and go in the routing table: one at log distance 2,
\* three at log distance 3
Peers == {3, 4, 5, 6}
Discovered == {5, 6}

VARIABLES
    sessions,   \* Pool._sessions: a dict, here a function key -> session
    now,        \* time.monotonic()
    next_uuid,  \* the next fresh uuid4 of a constructed session
    call,       \* the last Pool method called, with its arguments
    ret,        \* what that call returned or raised
    live        \* per remote node, the uuid of the session last created for
                \* it and not removed since (0: none)

VARIABLES
    manager,            \* the service: "created", "running" or "cancelled"
    table,              \* the nodes in the buckets, least recently seen first
    replacement_cache,  \* per log distance, the replacement candidates
    ping_pc,            \* where _ping_occasionally is
    ping_todo,          \* the candidates still to ping; the head is being pinged
    cycle,              \* what the current or last liveness cycle did
    subscriptions,      \* the payload types the dispatcher has a subscriber for
    find_nodes_inbox,   \* the FindNodes subscription: requests not yet received
    lookup_pc,          \* where _handle_lookup_requests is
    lookup_reply,       \* the send_found_nodes call it is in (its arguments)
    ping_inbox,         \* the Ping subscription: requests not yet received
    pong_pc,            \* where _pong_when_pinged is
    pong_request,       \* its local `request`
    pong_reply          \* the send_pong call it is in (its arguments)

VARIABLES
    search_pc,      \* where _lookup_occasionally is
    found_nodes,    \* its local `found_nodes`, as a set of node ids
    verifying,      \* per node, the _verify_node tasks running in the nursery
    verdict,        \* what the _verify_node that returned last returned
    report_pc,      \* where _periodic_report_routing_table_status is
    reported        \* the statistics it logged last

VARIABLES
    session_role,   \* one session: "None" before it is constructed, then
                    \* "SessionInitiator" or "SessionRecipient"
    handshake,      \* its handshake state
    queue,          \* its queued outbound messages
    wire,           \* the packets it has emitted to the transport, in order
    accepted,       \* the messages handle_outbound_message has accepted, in
                    \* the order of the calls
    received        \* the inbound messages it has delivered

poolVars == <<sessions, now, next_uuid, call, ret, live>>
tableVars == <<table, replacement_cache>>
clientVars == <<subscriptions>>
lookupVars == <<find_nodes_inbox, lookup_pc, lookup_reply>>
pongVars == <<ping_inbox, pong_pc, pong_request, pong_reply>>
searchVars == <<search_pc, found_nodes, verifying, verdict>>
reportVars == <<report_pc, reported>>
sessionVars == <<session_role, handshake, queue, wire, accepted, received>>
otherVars == <<searchVars, reportVars, sessionVars>>
managerVars == <<manager, table, replacement_cache, ping_pc, ping_todo, cycle,
                 subscriptions, find_nodes_inbox, lookup_pc, lookup_reply,
                 ping_inbox, pong_pc, pong_request, pong_reply, otherVars>>
pingVars == <<ping_pc, ping_todo, cycle>>

vars == <<sessions, now, next_uuid, call, ret, live, manager, table,
          replacement_cache, ping_pc, ping_todo, cycle, subscriptions,
          find_nodes_inbox, lookup_pc, lookup_reply, ping_inbox, pong_pc,
          pong_request, pong_reply, search_pc, found_nodes, verifying, verdict,
          report_pc, reported, session_role, handshake, queue, wire, accepted,
          received>>

\* ---------------------------------------------------------- sequences
Range(s) == {s[i] : i \in 1..Len(s)}
Reverse(s) == [i \in 1..Len(s) |-> s[Len(s) + 1 - i]]
Without(s, x) == SelectSeq(s, LAMBDA y : y # x)
Front(s) == SubSeq(s, 1, Len(s) - 1)
Last(s) == s[Len(s)]
IsPrefix(s, t) == Len(s) <= Len(t) /\ SubSeq(t, 1, Len(s)) = s

\* ------------------------------------------------------------ dict helpers
\* dict.values()
Values(d) == {d[k] : k \in DOMAIN d}

\* d[key] = value
DictSet(d, key, value) == [k \in DOMAIN d \cup {key} |-> IF k = key THEN value ELSE d[k]]

\* a pop that leaves the entries where they are
DictPopKeeps(d, keys) == d

\* d.pop(key) for each key of keys, all of them present
DictPop(d, keys) == [k \in DOMAIN d \ keys |-> d[k]]

Returned(v) == [raised |-> "None", value |-> v]
Raised(e) == [raised |-> e, value |-> 0]

\* --------------------------------------------------------------- sessions
\* SessionInitiator(...) / SessionRecipient(...): a fresh session object for
\* remote_node, with its own uuid and its last-message time set at birth.
NewSession(remote_node, is_initiator) ==
    [session_id |-> next_uuid,
     remote_node_id |-> remote_node,
     role |-> IF is_initiator THEN "SessionInitiator" ELSE "SessionRecipient",
     last_message_at |-> now]

\* Pool.__init__
PoolInit ==
    /\ sessions = << >>
    /\ now = 0
    /\ next_uuid = 1
    /\ call = [op |-> "__init__"]
    /\ ret = Returned(0)
    /\ live = [n \in Remote |-> 0]

\* Pool.has_session
has_session(remote_node_id) == remote_node_id \in DOMAIN sessions

\* the key under which create_session registers the session
SessionKeyBySessionId(session) == session.session_id
SessionKey(session) == session.remote_node_id

\* create_session without its DuplicateSession check
create_session_unchecked(remote_node, is_initiator) ==
    /\ call' = [op |-> "create_session", node |-> remote_node,
                is_initiator |-> is_initiator]
    /\ next_uuid <= MaxSessions
    /\ LET session == NewSession(remote_node, is_initiator)
       IN /\ sessions' = DictSet(sessions, SessionKey(session), session)
          /\ ret' = Returned(session.session_id)
          /\ live' = [live EXCEPT ![remote_node] = session.session_id]
    /\ next_uuid' = next_uuid + 1
    /\ UNCHANGED <<now, managerVars>>

\* Pool.create_session
create_session(remote_node, is_initiator) ==
    /\ call' = [op |-> "create_session", node |-> remote_node,
                is_initiator |-> is_initiator]
    /\ IF remote_node \in DOMAIN sessions
       THEN /\ ret' = Raised("DuplicateSession")
            /\ UNCHANGED <<sessions, next_uuid, live, managerVars>>
       ELSE /\ next_uuid <= MaxSessions
            /\ LET session == NewSession(remote_node, is_initiator)
               IN /\ sessions' = DictSet(sessions, SessionKey(session), session)
                  /\ ret' = Returned(session.session_id)
                  /\ live' = [live EXCEPT ![remote_node] = session.session_id]
            /\ next_uuid' = next_uuid + 1
    /\ UNCHANGED <<now, managerVars>>

\* get_session answering a miss with None, as dict.get would
get_session_no_raise(remote_node_id) ==
    /\ call' = [op |-> "get_session", node |-> remote_node_id]
    /\ IF remote_node_id \notin DOMAIN sessions
       THEN ret' = Returned(0)
       ELSE ret' = Returned(sessions[remote_node_id].session_id)
    /\ UNCHANGED <<sessions, now, next_uuid, live, managerVars>>

\* Pool.get_session
get_session(remote_node_id) ==
    /\ call' = [op |-> "get_session", node |-> remote_node_id]
    /\ IF remote_node_id \notin DOMAIN sessions
       THEN ret' = Raised("SessionNotFound")
       ELSE ret' = Returned(sessions[remote_node_id].session_id)
    /\ UNCHANGED <<sessions, now, next_uuid, live, managerVars>>

\* the sessions remove_session(session_id) selects
ToRemoveOthers(session_id) ==
    {session \in Values(sessions) : session.session_id # session_id}
ToRemove(session_id) ==
    {session \in Values(sessions) : session.session_id = session_id}

\* Pool.remove_session
remove_session(session_id) ==
    LET to_remove == ToRemove(session_id)
        keys == {session.remote_node_id : session \in to_remove}
    IN /\ call' = [op |-> "remove_session", session_id |-> session_id]
       /\ IF keys \subseteq DOMAIN sessions
          THEN /\ sessions' = DictPop(sessions, keys)
               /\ ret' = Returned(to_remove # {})
          ELSE /\ ret' = Raised("KeyError")
               /\ UNCHANGED sessions
       /\ live' = [n \in Remote |-> IF live[n] = session_id THEN 0 ELSE live[n]]
       /\ UNCHANGED <<now, next_uuid, managerVars>>

\* the comparison of get_idle_sesssions
IsIdleStrict(session, timed_out_at) == session.last_message_at < timed_out_at
IsIdle(session, timed_out_at) == session.last_message_at <= timed_out_at

\* Pool.get_idle_sesssions; the tuple it returns is modelled by the set of
\* the session ids in it
get_idle_sesssions ==
    LET timed_out_at == now - SESSION_IDLE_TIMEOUT
    IN /\ call' = [op |-> "get_idle_sesssions"]
       /\ ret' = Returned({session.session_id : session \in
                             {s \in Values(sessions) : IsIdle(s, timed_out_at)}})
       /\ UNCHANGED <<sessions, now, next_uuid, live, managerVars>>

\* the monotonic clock advances
Tick ==
    /\ now < MaxTime
    /\ now' = now + 1
    /\ call' = [op |-> "tick"]
    /\ ret' = Returned(0)
    /\ UNCHANGED <<sessions, next_uuid, live, managerVars>>

\* a session handles a message: its last_message_at becomes the current time
SessionMessage(key) ==
    /\ key \in DOMAIN sessions
    /\ sessions[key].last_message_at # now
    /\ sessions' = [sessions EXCEPT ![key].last_message_at = now]
    /\ call' = [op |-> "message"]
    /\ ret' = Returned(0)
    /\ UNCHANGED <<now, next_uuid, live, managerVars>>

\* the pool's idle-session eviction, after the specification, section 4.2
\* (failure semantics): the sessions get_idle_sesssions returns are removed
\* with remove_session, in one go
EvictIdle ==
    LET timed_out_at == now - SESSION_IDLE_TIMEOUT
        idle == {s \in Values(sessions) : IsIdle(s, timed_out_at)}
        to_remove == UNION {ToRemove(s.session_id) : s \in idle}
        keys == {s.remote_node_id : s \in to_remove}
        ids == {s.session_id : s \in idle}
    IN /\ idle # {}
       /\ call' = [op |-> "evict"]
       /\ IF keys \subseteq DOMAIN sessions
          THEN /\ sessions' = DictPop(sessions, keys)
               /\ ret' = Returned(0)
          ELSE /\ ret' = Raised("KeyError")
               /\ UNCHANGED sessions
       /\ live' = [n \in Remote |-> IF live[n] \in ids THEN 0 ELSE live[n]]
       /\ UNCHANGED <<now, next_uuid, managerVars>>

PoolNext ==
    \/ \E n \in Remote, i \in BOOLEAN : create_session(n, i)
    \/ \E n \in Remote : get_session(n)
    \/ \E u \in UUID : remove_session(u)
    \/ get_idle_sesssions
    \/ Tick
    \/ \E k \in Remote \cup UUID : SessionMessage(k)

\* the pool with its eviction of idle sessions; the local node initiates
EvictionNext ==
    \/ \E n \in Remote : create_session(n, TRUE)
    \/ Tick
    \/ \E k \in Remote \cup UUID : SessionMessage(k)
    \/ EvictIdle

\* ---------------------------------------------------------------- session
\* One session (SessionAPI) after the specification, section 4.2.

SessionInit ==
    /\ session_role = "None"
    /\ handshake = "BeforeHandshake"
    /\ queue = << >>
    /\ wire = << >>
    /\ accepted = << >>
    /\ received = 0

\* the payload types of the messages a caller sends
Payload == {"Ping", "FindNodes"}

Packet(kind, message) == [kind |-> kind, message |-> message]

\* what a packet of the handshake carries, which is no message
Nothing == [id |-> 0, payload |-> "None"]

\* the queued messages leave as MessagePackets
FlushNewestFirst(messages) ==
    [i \in 1..Len(messages) |->
        Packet("MessagePacket", messages[Len(messages) + 1 - i])]
Flush(messages) ==
    [i \in 1..Len(messages) |-> Packet("MessagePacket", messages[i])]

\* SessionInitiator(...) or SessionRecipient(...)
SessionCreate(is_initiator) ==
    /\ session_role = "None"
    /\ session_role' = IF is_initiator THEN "SessionInitiator" ELSE "SessionRecipient"
    /\ UNCHANGED <<handshake, queue, wire, accepted, received, poolVars,
                   manager, tableVars, pingVars, clientVars, lookupVars, pongVars,
                   searchVars, reportVars>>

\* Session.handle_outbound_message(message)
handle_outbound_message(payload) ==
    /\ session_role # "None"
    /\ Len(accepted) < MaxMessages
    /\ LET message == [id |-> Len(accepted) + 1, payload |-> payload]
       IN /\ accepted' = Append(accepted, message)
          /\ IF handshake = "HandshakeComplete"
             THEN /\ wire' = Append(wire, Packet("MessagePacket", message))
                  /\ UNCHANGED <<handshake, queue>>
             ELSE IF handshake = "BeforeHandshake" /\ session_role = "SessionInitiator"
             THEN /\ wire' = Append(wire, Packet("AuthTagPacket", Nothing))
                  /\ handshake' = "DuringHandshake"
                  /\ queue' = Append(queue, message)
             ELSE /\ queue' = Append(queue, message)
                  /\ UNCHANGED <<handshake, wire>>
    /\ UNCHANGED <<session_role, received, poolVars,
                   manager, tableVars, pingVars, clientVars, lookupVars, pongVars,
                   searchVars, reportVars>>

\* Session.handle_inbound_packet(WhoAreYouPacket), initiator: the pending
\* message leaves in the AuthHeaderPacket, the handshake is complete, the
\* other queued messages are flushed
ReceiveWhoAreYou ==
    /\ session_role = "SessionInitiator"
    /\ handshake = "DuringHandshake"
    /\ wire' = wire \o <<Packet("AuthHeaderPacket", Head(queue))>> \o Flush(Tail(queue))
    /\ queue' = << >>
    /\ handshake' = "HandshakeComplete"
    /\ UNCHANGED <<session_role, accepted, received, poolVars,
                   manager, tableVars, pingVars, clientVars, lookupVars, pongVars,
                   searchVars, reportVars>>

\* Session.handle_inbound_packet(AuthTagPacket), recipient: the challenge
\* is emitted
ReceiveAuthTag ==
    /\ session_role = "SessionRecipient"
    /\ handshake = "BeforeHandshake"
    /\ wire' = Append(wire, Packet("WhoAreYouPacket", Nothing))
    /\ handshake' = "DuringHandshake"
    /\ UNCHANGED <<session_role, queue, accepted, received, poolVars,
                   manager, tableVars, pingVars, clientVars, lookupVars, pongVars,
                   searchVars, reportVars>>

\* Session.handle_inbound_packet(AuthHeaderPacket), recipient: the handshake
\* is complete, the embedded message is delivered, the queued messages are
\* flushed
ReceiveAuthHeader ==
    /\ session_role = "SessionRecipient"
    /\ handshake = "DuringHandshake"
    /\ handshake' = "HandshakeComplete"
    /\ received' = received + 1
    /\ wire' = wire \o Flush(queue)
    /\ queue' = << >>
    /\ UNCHANGED <<session_role, accepted, poolVars,
                   manager, tableVars, pingVars, clientVars, lookupVars, pongVars,
                   searchVars, reportVars>>

\* Session.handle_inbound_packet(MessagePacket) after the handshake: the
\* message is decrypted and delivered
ReceiveMessage ==
    /\ handshake = "HandshakeComplete"
    /\ received < MaxMessages
    /\ received' = received + 1
    /\ UNCHANGED <<session_role, handshake, queue, wire, accepted, poolVars,
                   manager, tableVars, pingVars, clientVars, lookupVars, pongVars,
                   searchVars, reportVars>>

SessionNext ==
    \/ \E i \in BOOLEAN : SessionCreate(i)
    \/ \E p \in Payload : handle_outbound_message(p)
    \/ ReceiveWhoAreYou
    \/ ReceiveAuthTag
    \/ ReceiveAuthHeader
    \/ ReceiveMessage

\* ---------------------------------------------------------- routing table
\* The routing table (RoutingTableAPI) after the specification, section 4.5.
\* `table` lists the nodes of all buckets, least recently seen first; a
\* bucket is the subsequence of the nodes at its log distance.

RECURSIVE Xor(_, _)
Xor(a, b) ==
    IF a = 0 THEN b
    ELSE IF b = 0 THEN a
    ELSE (((a % 2) + (b % 2)) % 2) + (2 * Xor(a \div 2, b \div 2))

RECURSIVE BitLength(_)
BitLength(x) == IF x = 0 THEN 0 ELSE 1 + BitLength(x \div 2)

\* floor(log2(local XOR peer)) + 1
LogDistance(node_id) == BitLength(Xor(local_node_id, node_id))

NumBuckets == BitLength(MaxNodeId)

Bucket(distance) == SelectSeq(table, LAMBDA n : LogDistance(n) = distance)

\* RoutingTable.is_empty
is_empty == table = << >>

\* RoutingTable.get_nodes_at_log_distance: the bucket, most recent first
get_nodes_at_log_distance(distance) == Reverse(Bucket(distance))

\* RoutingTable.get_least_recently_updated_log_distance: the (non-empty)
\* bucket whose least recently seen entry is the oldest
get_least_recently_updated_log_distance == LogDistance(Head(table))

\* RoutingTable.update(node_id): the buckets afterwards
UpdatedTable(node_id) ==
    LET bucket == Bucket(LogDistance(node_id))
    IN IF node_id = local_node_id THEN table
       ELSE IF node_id \in Range(bucket) THEN Append(Without(table, node_id), node_id)
       ELSE IF Len(bucket) < BucketSize THEN Append(table, node_id)
       ELSE table

\* RoutingTable.update(node_id): the replacement caches afterwards
UpdatedCache(node_id) ==
    LET distance == LogDistance(node_id)
        bucket == Bucket(distance)
        moved == Append(Without(replacement_cache[distance], node_id), node_id)
    IN IF \/ node_id = local_node_id
          \/ node_id \in Range(bucket)
          \/ Len(bucket) < BucketSize
       THEN replacement_cache
       ELSE [replacement_cache EXCEPT ![distance] =
                IF Len(moved) > BucketSize THEN Tail(moved) ELSE moved]

\* RoutingTable.remove(node_id): the buckets afterwards; the most recent
\* replacement candidate is promoted to the tail of the bucket
RemovedTable(node_id) ==
    LET candidates == replacement_cache[LogDistance(node_id)]
    IN IF node_id \notin Range(table) THEN table
       ELSE IF candidates # << >>
            THEN Append(Without(table, node_id), Last(candidates))
            ELSE Without(table, node_id)

\* RoutingTable.remove(node_id): the replacement caches afterwards
RemovedCache(node_id) ==
    LET distance == LogDistance(node_id)
        candidates == replacement_cache[distance]
    IN IF node_id \notin Range(table) \/ candidates = << >>
       THEN replacement_cache
       ELSE [replacement_cache EXCEPT ![distance] = Front(candidates)]

\* ------------------------------------------------- routing-table manager
NoCycle ==
    [distance |-> 0, bucket |-> << >>, cache |-> << >>, pinged |-> << >>,
     timed_out |-> {}, ponged |-> {}, quiet |-> TRUE]

NoMessage == [type |-> "None"]

NoVerdict == [node |-> 0, value |-> FALSE]

NoStats ==
    [bucket_size |-> 0, num_buckets |-> 0, total_nodes |-> 0,
     full_buckets |-> {}, num_in_replacement_cache |-> 0]

\* the ways a daemon task ends: by trio's Cancelled, by an exception of its
\* own, by leaving its loop
Terminal == {"cancelled", "failed", "exited"}

ManagerInit ==
    /\ manager = "created"
    /\ table = << >>
    /\ replacement_cache = [d \in 1..NumBuckets |-> << >>]
    /\ ping_pc = "start"
    /\ ping_todo = << >>
    /\ cycle = NoCycle
    /\ subscriptions = {}
    /\ find_nodes_inbox = << >>
    /\ lookup_pc = "start"
    /\ lookup_reply = NoMessage
    /\ ping_inbox = << >>
    /\ pong_pc = "start"
    /\ pong_request = NoMessage
    /\ pong_reply = NoMessage
    /\ search_pc = "start"
    /\ found_nodes = {}
    /\ verifying = [n \in NodeID |-> 0]
    /\ verdict = NoVerdict
    /\ report_pc = "start"
    /\ reported = NoStats

\* RoutingTableManager.run: the daemons are started
Run ==
    /\ manager = "created"
    /\ manager' = "running"
    /\ ping_pc' = "sleep"
    /\ search_pc' = "sleep"
    /\ report_pc' = "sleep"
    /\ UNCHANGED <<tableVars, ping_todo, cycle, clientVars, lookupVars, pongVars,
                   found_nodes, verifying, verdict, reported, poolVars, sessionVars>>

\* another task (the network, on a verified or a talking node) calls
\* RoutingTable.update(node_id)
RoutingTableUpdate(node_id) ==
    /\ table' = UpdatedTable(node_id)
    /\ replacement_cache' = UpdatedCache(node_id)
    /\ <<table', replacement_cache'>> # <<table, replacement_cache>>
    /\ cycle' = [cycle EXCEPT !.quiet = FALSE]
    /\ UNCHANGED <<manager, ping_pc, ping_todo, clientVars, lookupVars, pongVars,
                   poolVars, otherVars>>

\* the order in which _ping_occasionally walks the candidates
PingOrderAsReturned(candidates) == candidates
PingOrder(candidates) == Reverse(candidates)

\* the candidates _ping_occasionally reads for the log distance it has just
\* read, with no await between the two reads
CandidatesOfLastCycle(log_distance) ==
    get_nodes_at_log_distance(IF cycle.distance = 0 THEN log_distance
                              ELSE cycle.distance)
Candidates(log_distance) == get_nodes_at_log_distance(log_distance)

\* _ping_occasionally, a tick of every(ROUTING_TABLE_PING_INTERVAL): the
\* candidates are read and the first Ping is sent
PingTick ==
    /\ manager = "running"
    /\ ping_pc = "sleep"
    /\ IF is_empty
       THEN /\ cycle' = NoCycle
            /\ UNCHANGED <<ping_pc, ping_todo>>
       ELSE LET log_distance == get_least_recently_updated_log_distance
                candidates == Candidates(log_distance)
                todo == PingOrder(candidates)
            IN /\ ping_todo' = todo
               /\ ping_pc' = IF todo = << >> THEN "sleep" ELSE "ping"
               /\ cycle' = [distance |-> log_distance,
                            bucket |-> Bucket(log_distance),
                            cache |-> replacement_cache[log_distance],
                            pinged |-> IF todo = << >> THEN << >> ELSE <<Head(todo)>>,
                            timed_out |-> {},
                            ponged |-> {},
                            quiet |-> TRUE]
    /\ UNCHANGED <<manager, tableVars, clientVars, lookupVars, pongVars, poolVars, otherVars>>

\* whether the pinged node is removed, given scope.cancelled_caught
RemovesWhenAnswered(cancelled_caught) == ~cancelled_caught
Removes(cancelled_caught) == cancelled_caught

\* the candidates the loop goes on with after a removal
RestNone(todo) == << >>
Rest(todo) == Tail(todo)

\* _ping_occasionally, the end of `await self.client.ping(node)` under
\* move_on_after(PING_TIMEOUT): the pong came (cancelled_caught false) or
\* the timeout fired (cancelled_caught true)
PingDone(cancelled_caught) ==
    /\ manager = "running"
    /\ ping_pc = "ping"
    /\ LET node_id == Head(ping_todo)
           seen == [cycle EXCEPT
                      !.timed_out = IF cancelled_caught THEN @ \cup {node_id} ELSE @,
                      !.ponged = IF cancelled_caught THEN @ ELSE @ \cup {node_id}]
       IN IF Removes(cancelled_caught)
          THEN /\ table' = RemovedTable(node_id)
               /\ replacement_cache' = RemovedCache(node_id)
               /\ ping_todo' = Rest(ping_todo)
               /\ IF ping_todo' = << >>
                  THEN /\ ping_pc' = "sleep"
                       /\ cycle' = seen
                  ELSE /\ ping_pc' = "ping"
                       /\ cycle' = [seen EXCEPT !.pinged = Append(@, Head(ping_todo'))]
          ELSE /\ ping_pc' = "sleep"
               /\ ping_todo' = << >>
               /\ cycle' = seen
               /\ UNCHANGED tableVars
    /\ UNCHANGED <<manager, clientVars, lookupVars, pongVars, poolVars, otherVars>>

PingPong == PingDone(FALSE)

PingTimeout == PingDone(TRUE)

\* the service is cancelled: the scope of the five daemon tasks is cancelled,
\* every daemon gets trio's Cancelled at the await it is in, when it runs next
Cancel ==
    /\ manager = "running"
    /\ manager' = "cancelling"
    /\ UNCHANGED <<tableVars, pingVars, clientVars, lookupVars, pongVars,
                   poolVars, otherVars>>

\* a daemon that catches the Cancelled it gets and goes back to its loop
PingCancelledCaught ==
    /\ manager = "cancelling"
    /\ ping_pc \notin Terminal
    /\ ping_pc' = "sleep"
    /\ ping_todo' = << >>
    /\ UNCHANGED <<manager, tableVars, cycle, clientVars, lookupVars, pongVars,
                   poolVars, otherVars>>

\* _ping_occasionally gets Cancelled, in its sleep or in its ping
PingCancelled ==
    /\ manager = "cancelling"
    /\ ping_pc \notin Terminal
    /\ ping_pc' = "cancelled"
    /\ ping_todo' = << >>
    /\ UNCHANGED <<manager, tableVars, cycle, clientVars, lookupVars, pongVars,
                   poolVars, otherVars>>

\* EndpointDatabase.get_endpoint
get_endpoint(node_id) == [ip_address |-> "127.0.0.1", port |-> 30000 + node_id]

\* Node(node_id, endpoint)
Node(node_id, endpoint) == [node_id |-> node_id, endpoint |-> endpoint]

\* Client.local_node
local_node == Node(local_node_id, get_endpoint(local_node_id))

\* RoutingTableManager._get_nodes_at_distance
get_nodes_at_distance(distance) ==
    LET nodes_at_distance == get_nodes_at_log_distance(distance)
    IN [i \in 1..Len(nodes_at_distance) |->
          Node(nodes_at_distance[i], get_endpoint(nodes_at_distance[i]))]

\* the found_nodes of _handle_lookup_requests
FoundNodesFromBucket(distance) == get_nodes_at_distance(distance)
FoundNodes(distance) ==
    IF distance = 0 THEN <<local_node>> ELSE get_nodes_at_distance(distance)

\* the end of a `with ...subscribe(payload_type) as subscription:` block, on
\* whatever path it is left
LeaveSubscriptionNever(payload_type) == subscriptions
LeaveSubscription(payload_type) == subscriptions \ {payload_type}

\* _handle_lookup_requests enters `with ...subscribe(FindNodes)`
LookupSubscribe ==
    /\ manager = "running"
    /\ lookup_pc = "start"
    /\ subscriptions' = subscriptions \cup {"FindNodes"}
    /\ lookup_pc' = "receive"
    /\ UNCHANGED <<manager, tableVars, pingVars, find_nodes_inbox, lookup_reply,
                   pongVars, poolVars, otherVars>>

\* the dispatcher hands an inbound FindNodes to its subscriber
DeliverFindNodes(node, request_id, distance) ==
    /\ "FindNodes" \in subscriptions
    /\ Len(find_nodes_inbox) < MaxInbox
    /\ find_nodes_inbox' = Append(find_nodes_inbox,
            [type |-> "FindNodes", node |-> node, request_id |-> request_id,
             distance |-> distance])
    /\ UNCHANGED <<manager, tableVars, pingVars, clientVars, lookup_pc,
                   lookup_reply, pongVars, poolVars, otherVars>>

\* _handle_lookup_requests: subscription.receive() returns a request, the
\* found nodes are computed and send_found_nodes is called
LookupReceive ==
    /\ manager = "running"
    /\ lookup_pc = "receive"
    /\ find_nodes_inbox # << >>
    /\ LET request == Head(find_nodes_inbox)
       IN lookup_reply' = [type |-> "FoundNodes",
                           node |-> request.node,
                           request_id |-> request.request_id,
                           found_nodes |-> FoundNodes(request.distance)]
    /\ find_nodes_inbox' = Tail(find_nodes_inbox)
    /\ lookup_pc' = "send"
    /\ UNCHANGED <<manager, tableVars, pingVars, clientVars, pongVars, poolVars, otherVars>>

\* _handle_lookup_requests: send_found_nodes returns
LookupSend ==
    /\ manager = "running"
    /\ lookup_pc = "send"
    /\ lookup_reply' = NoMessage
    /\ lookup_pc' = "receive"
    /\ UNCHANGED <<manager, tableVars, pingVars, subscriptions, find_nodes_inbox,
                   pongVars, poolVars, otherVars>>

\* _handle_lookup_requests gets Cancelled, in receive() or in
\* send_found_nodes (or before it ran at all)
LookupCancelled ==
    /\ manager = "cancelling"
    /\ lookup_pc \notin Terminal
    /\ lookup_pc' = "cancelled"
    /\ lookup_reply' = NoMessage
    /\ subscriptions' = LeaveSubscription("FindNodes")
    /\ UNCHANGED <<manager, tableVars, pingVars, find_nodes_inbox, pongVars,
                   poolVars, otherVars>>

\* _handle_lookup_requests: send_found_nodes had returned when the service
\* was cancelled; `while self.manager.is_running` ends the loop
LookupExit ==
    /\ manager = "cancelling"
    /\ lookup_pc = "send"
    /\ lookup_pc' = "exited"
    /\ lookup_reply' = NoMessage
    /\ subscriptions' = LeaveSubscription("FindNodes")
    /\ UNCHANGED <<manager, tableVars, pingVars, find_nodes_inbox, pongVars,
                   poolVars, otherVars>>

\* _handle_lookup_requests: receive() or send_found_nodes raises; the
\* exception leaves the `with` block and ends the task, and the service with it
LookupError ==
    /\ manager = "running"
    /\ lookup_pc \in {"receive", "send"}
    /\ lookup_pc' = "failed"
    /\ lookup_reply' = NoMessage
    /\ subscriptions' = LeaveSubscription("FindNodes")
    /\ manager' = "cancelling"
    /\ UNCHANGED <<tableVars, pingVars, find_nodes_inbox, pongVars, poolVars,
                   otherVars>>

\* the Pong that answers a Ping
PongToRequestIdZero(request) ==
    [type |-> "Pong", node |-> request.node, request_id |-> 0]
Pong(request) ==
    [type |-> "Pong", node |-> request.node, request_id |-> request.request_id]

\* _pong_when_pinged enters `with ...subscribe(Ping)`
PongSubscribe ==
    /\ manager = "running"
    /\ pong_pc = "start"
    /\ subscriptions' = subscriptions \cup {"Ping"}
    /\ pong_pc' = "receive"
    /\ UNCHANGED <<manager, tableVars, pingVars, lookupVars, ping_inbox,
                   pong_request, pong_reply, poolVars, otherVars>>

\* the dispatcher hands an inbound Ping to its subscriber
DeliverPing(node, request_id, enr_seq) ==
    /\ "Ping" \in subscriptions
    /\ Len(ping_inbox) < MaxInbox
    /\ ping_inbox' = Append(ping_inbox,
            [type |-> "Ping", node |-> node, request_id |-> request_id,
             enr_seq |-> enr_seq])
    /\ UNCHANGED <<manager, tableVars, pingVars, clientVars, lookupVars, pong_pc,
                   pong_request, pong_reply, poolVars, otherVars>>

\* _pong_when_pinged: subscription.receive() returns a request and send_pong
\* is called
PongReceive ==
    /\ manager = "running"
    /\ pong_pc = "receive"
    /\ ping_inbox # << >>
    /\ pong_request' = Head(ping_inbox)
    /\ pong_reply' = Pong(pong_request')
    /\ ping_inbox' = Tail(ping_inbox)
    /\ pong_pc' = "send"
    /\ UNCHANGED <<manager, tableVars, pingVars, clientVars, lookupVars, poolVars, otherVars>>

\* _pong_when_pinged: send_pong returns
PongSend ==
    /\ manager = "running"
    /\ pong_pc = "send"
    /\ pong_reply' = NoMessage
    /\ pong_pc' = "receive"
    /\ UNCHANGED <<manager, tableVars, pingVars, subscriptions, lookupVars,
                   ping_inbox, pong_request, poolVars, otherVars>>

\* _pong_when_pinged gets Cancelled, in receive() or in send_pong (or before
\* it ran at all)
PongCancelled ==
    /\ manager = "cancelling"
    /\ pong_pc \notin Terminal
    /\ pong_pc' = "cancelled"
    /\ pong_reply' = NoMessage
    /\ subscriptions' = LeaveSubscription("Ping")
    /\ UNCHANGED <<manager, tableVars, pingVars, lookupVars, ping_inbox,
                   pong_request, poolVars, otherVars>>

\* _pong_when_pinged: send_pong had returned when the service was cancelled;
\* `while self.manager.is_running` ends the loop
PongExit ==
    /\ manager = "cancelling"
    /\ pong_pc = "send"
    /\ pong_pc' = "exited"
    /\ pong_reply' = NoMessage
    /\ subscriptions' = LeaveSubscription("Ping")
    /\ UNCHANGED <<manager, tableVars, pingVars, lookupVars, ping_inbox,
                   pong_request, poolVars, otherVars>>

\* _pong_when_pinged: receive() or send_pong raises; the exception leaves the
\* `with` block and ends the task, and the service with it
PongError ==
    /\ manager = "running"
    /\ pong_pc \in {"receive", "send"}
    /\ pong_pc' = "failed"
    /\ pong_reply' = NoMessage
    /\ subscriptions' = LeaveSubscription("Ping")
    /\ manager' = "cancelling"
    /\ UNCHANGED <<tableVars, pingVars, lookupVars, ping_inbox, pong_request,
                   poolVars, otherVars>>

\* ---------------------------------------------------- periodic lookup
\* NetworkAPI.iterative_lookup and NetworkAPI.verify_and_add after the
\* specification, sections 4.6 and 4.7: a lookup returns discovered nodes
\* without duplicates; a verification sends one Ping and, when the Pong
\* comes, calls RoutingTable.update.

\* _lookup_occasionally, a tick of every(ROUTING_TABLE_LOOKUP_INTERVAL): on an
\* empty table the tick is skipped, otherwise iterative_lookup is awaited
SearchTickStopsOnEmpty == IF is_empty THEN "exited" ELSE "lookup"
SearchTickTo == IF is_empty THEN "sleep" ELSE "lookup"

SearchTick ==
    /\ manager = "running"
    /\ search_pc = "sleep"
    /\ search_pc' = SearchTickTo
    /\ UNCHANGED <<manager, tableVars, pingVars, clientVars, lookupVars, pongVars,
                   found_nodes, verifying, verdict, reportVars, poolVars, sessionVars>>

\* `for node in found_nodes: nursery.start_soon(self._verify_node, node)`:
\* the tasks of the nursery afterwards
StartVerifications(found) ==
    [n \in NodeID |-> IF n \in found THEN verifying[n] + 1 ELSE verifying[n]]

\* _lookup_occasionally: iterative_lookup returns `found`, and a verification
\* is started for each of the nodes
LookupDone(found) ==
    /\ manager = "running"
    /\ search_pc = "lookup"
    /\ \A n \in found : verifying[n] < MaxVerifying
    /\ found_nodes' = found
    /\ verifying' = StartVerifications(found)
    /\ search_pc' = "sleep"
    /\ UNCHANGED <<manager, tableVars, pingVars, clientVars, lookupVars, pongVars,
                   verdict, reportVars, poolVars, sessionVars>>

\* what _verify_node returns, given scope.cancelled_caught
VerifyReturnTrue(cancelled_caught) == TRUE
VerifyReturn(cancelled_caught) == ~cancelled_caught

\* the tasks of the nursery after the _verify_node of node_id returned: its
\* move_on_after scope is its own
AfterVerifyCancelsAll(node_id, cancelled_caught) ==
    IF cancelled_caught THEN [n \in NodeID |-> 0]
    ELSE [verifying EXCEPT ![node_id] = @ - 1]
AfterVerify(node_id, cancelled_caught) == [verifying EXCEPT ![node_id] = @ - 1]

\* _verify_node(node), the end of `await self.network.verify_and_add(node)`
\* under move_on_after(PING_TIMEOUT): the node answered and was added
\* (cancelled_caught false), or the timeout cancelled the call
VerifyDone(node_id, cancelled_caught) ==
    /\ manager = "running"
    /\ verifying[node_id] > 0
    /\ IF cancelled_caught
       THEN UNCHANGED <<tableVars, cycle>>
       ELSE /\ table' = UpdatedTable(node_id)
            /\ replacement_cache' = UpdatedCache(node_id)
            /\ cycle' = [cycle EXCEPT !.quiet =
                            @ /\ table' = table /\ replacement_cache' = replacement_cache]
    /\ verifying' = AfterVerify(node_id, cancelled_caught)
    /\ verdict' = [node |-> node_id, value |-> VerifyReturn(cancelled_caught)]
    /\ UNCHANGED <<manager, ping_pc, ping_todo, clientVars, lookupVars, pongVars,
                   search_pc, found_nodes, reportVars, poolVars, sessionVars>>

VerifySucceeded(node_id) == VerifyDone(node_id, FALSE)

VerifyTimeout(node_id) == VerifyDone(node_id, TRUE)

\* _lookup_occasionally gets Cancelled, in its sleep or in iterative_lookup;
\* the nursery cancels the verifications that still run and the task ends
SearchCancelled ==
    /\ manager = "cancelling"
    /\ search_pc \notin Terminal
    /\ search_pc' = "cancelled"
    /\ verifying' = [n \in NodeID |-> 0]
    /\ UNCHANGED <<manager, tableVars, pingVars, clientVars, lookupVars, pongVars,
                   found_nodes, verdict, reportVars, poolVars, sessionVars>>

\* ------------------------------------------------------ status reporter
RECURSIVE NumInReplacementCache(_)
NumInReplacementCache(d) ==
    IF d = 0 THEN 0 ELSE Len(replacement_cache[d]) + NumInReplacementCache(d - 1)

\* RoutingTable.get_stats
get_stats ==
    [bucket_size |-> BucketSize,
     num_buckets |-> NumBuckets,
     total_nodes |-> Len(table),
     full_buckets |-> {d \in 1..NumBuckets : Len(Bucket(d)) = BucketSize},
     num_in_replacement_cache |-> NumInReplacementCache(NumBuckets)]

\* _periodic_report_routing_table_status, a tick of every(30, 10)
ReportStatus ==
    /\ manager = "running"
    /\ report_pc = "sleep"
    /\ reported' = get_stats
    /\ UNCHANGED <<manager, tableVars, pingVars, clientVars, lookupVars, pongVars,
                   searchVars, report_pc, poolVars, sessionVars>>

\* _periodic_report_routing_table_status gets Cancelled in its sleep
ReportCancelled ==
    /\ manager = "cancelling"
    /\ report_pc \notin Terminal
    /\ report_pc' = "cancelled"
    /\ UNCHANGED <<manager, tableVars, pingVars, clientVars, lookupVars, pongVars,
                   searchVars, reported, poolVars, sessionVars>>

\* Service.manager.wait_finished returns: the five daemons have ended
Finished ==
    /\ manager = "cancelling"
    /\ {ping_pc, lookup_pc, pong_pc, search_pc, report_pc} \subseteq Terminal
    /\ manager' = "finished"
    /\ UNCHANGED <<tableVars, pingVars, clientVars, lookupVars, pongVars,
                   poolVars, otherVars>>

PingNext ==
    \/ Run
    \/ Cancel
    \/ PingCancelled
    \/ \E n \in NodeID : RoutingTableUpdate(n)
    \/ PingTick
    \/ PingPong
    \/ PingTimeout

LookupRequestsNext ==
    \/ Run
    \/ Cancel
    \/ \E n \in NodeID : RoutingTableUpdate(n)
    \/ LookupSubscribe
    \/ \E q \in FindNodesSender, d \in 0..NumBuckets :
          DeliverFindNodes(q[1], q[2], d)
    \/ LookupReceive
    \/ LookupSend
    \/ LookupCancelled
    \/ LookupExit
    \/ LookupError

PongNext ==
    \/ Run
    \/ Cancel
    \/ PongSubscribe
    \/ \E n \in Requester, r \in RequestID, e \in EnrSeq : DeliverPing(n, r, e)
    \/ PongReceive
    \/ PongSend
    \/ PongCancelled
    \/ PongExit
    \/ PongError

\* the periodic lookups and their verifications
SearchNext ==
    \/ Run
    \/ Cancel
    \/ SearchCancelled
    \/ \E n \in Talking : RoutingTableUpdate(n)
    \/ SearchTick
    \/ \E found \in SUBSET Discovered : LookupDone(found)
    \/ \E n \in Discovered : VerifySucceeded(n)
    \/ \E n \in Discovered : VerifyTimeout(n)

\* the two maintenance daemons: the liveness pings and the periodic lookups,
\* which discover node 5
MaintenanceNext ==
    \/ Run
    \/ Cancel
    \/ PingCancelled
    \/ SearchCancelled
    \/ \E n \in Talking : RoutingTableUpdate(n)
    \/ PingTick
    \/ PingPong
    \/ PingTimeout
    \/ SearchTick
    \/ \E found \in SUBSET {5} : LookupDone(found)
    \/ VerifySucceeded(5)
    \/ VerifyTimeout(5)

\* the routing table between its writers (the network's updates, the
\* liveness daemon's removals) and its readers (the liveness daemon, the
\* FIND_NODES responder asked for the bucket of the peers)
TableNext ==
    \/ Run
    \/ \E n \in Peers : RoutingTableUpdate(n)
    \/ PingTick
    \/ PingPong
    \/ PingTimeout
    \/ LookupSubscribe
    \/ DeliverFindNodes(3, 1, NumBuckets)
    \/ LookupReceive
    \/ LookupSend

\* the service with its five daemons; node 4 talks, lookups discover node 5,
\* which never answers, node 3 asks for the local node and pings
ManagerNext ==
    \/ Run
    \/ Cancel
    \/ Finished
    \/ \E n \in Talking : RoutingTableUpdate(n)
    \/ ReportStatus
    \/ ReportCancelled
    \/ PingTick
    \/ PingPong
    \/ PingTimeout
    \/ PingCancelled
    \/ SearchTick
    \/ LookupDone({5})
    \/ VerifyTimeout(5)
    \/ SearchCancelled
    \/ LookupSubscribe
    \/ DeliverFindNodes(3, 1, 0)
    \/ LookupReceive
    \/ LookupSend
    \/ LookupCancelled
    \/ LookupExit
    \/ LookupError
    \/ PongSubscribe
    \/ DeliverPing(3, 1, 0)
    \/ PongReceive
    \/ PongSend
    \/ PongCancelled
    \/ PongExit
    \/ PongError

Init == PoolInit /\ ManagerInit /\ SessionInit

PoolSpec == Init /\ [][PoolNext]_vars

\* the eviction runs again and again; nothing obliges a peer to talk or the
\* clock of the model to go on
EvictionSpec == Init /\ [][EvictionNext]_vars /\ WF_sessions(EvictIdle)

PingSpec == Init /\ [][PingNext]_vars

LookupRequestsSpec == Init /\ [][LookupRequestsNext]_vars

TableSpec == Init /\ [][TableNext]_vars

SessionSpec == Init /\ [][SessionNext]_vars

\* trio runs every task that can run and the client's sends return; nothing
\* obliges a peer to send a Ping, or the service to be cancelled
PongSpec ==
    /\ Init
    /\ [][PongNext]_vars
    /\ WF_vars(PongSubscribe)
    /\ WF_vars(PongReceive)
    /\ WF_vars(PongSend)

\* the timers of every(...) fire, and a ping, a lookup and a verification
\* end, by their answer or by their timeout; nothing obliges a node to talk
\* or the service to be cancelled
SearchSpec ==
    /\ Init
    /\ [][SearchNext]_vars
    /\ WF_vars(SearchTick)
    /\ WF_vars(\E found \in SUBSET Discovered : LookupDone(found))
    /\ \A n \in Discovered : WF_vars(VerifySucceeded(n) \/ VerifyTimeout(n))
    /\ WF_vars(SearchCancelled)

MaintenanceSpec ==
    /\ Init
    /\ [][MaintenanceNext]_vars
    /\ WF_vars(PingTick)
    /\ WF_vars(PingPong \/ PingTimeout)
    /\ WF_vars(SearchTick)
    /\ WF_vars(\E found \in SUBSET {5} : LookupDone(found))
    /\ WF_vars(VerifySucceeded(5) \/ VerifyTimeout(5))
    /\ WF_vars(PingCancelled)
    /\ WF_vars(SearchCancelled)

\* trio runs every task that can run: a cancelled task gets its Cancelled,
\* and wait_finished returns when the last daemon has ended
ManagerSpec ==
    /\ Init
    /\ [][ManagerNext]_vars
    /\ WF_vars(ReportCancelled)
    /\ WF_vars(PingCancelled)
    /\ WF_vars(SearchCancelled)
    /\ WF_vars(LookupCancelled \/ LookupExit)
    /\ WF_vars(PongCancelled \/ PongExit)
    /\ WF_vars(Finished)

\* ----------------------------------------------------------- pool claims

\* C1: in every reachable state of the pool no two registered sessions have
\* the same remote node: entries under different keys hold sessions of
\* different remote nodes.
C1_OneSessionPerNode ==
    \A k1 \in DOMAIN sessions : \A k2 \in DOMAIN sessions :
        sessions[k1].remote_node_id = sessions[k2].remote_node_id => k1 = k2

\* two nodes have a session each, and a further create_session was refused
C1_Witness ==
    /\ Cardinality(DOMAIN sessions) = 2
    /\ call.op = "create_session"
    /\ ret.raised = "DuplicateSession"

\* C2: create_session(n, is_initiator) on a node with a registered session
\* raises DuplicateSession, whatever is_initiator, and changes nothing in the
\* session map: the first session stays the one registered for n.
C2_DuplicateRejected ==
    [][(call'.op = "create_session" /\ has_session(call'.node))
        => /\ ret'.raised = "DuplicateSession"
           /\ sessions' = sessions
           /\ next_uuid' = next_uuid]_vars

\* a recipient session was refused for a node that has an initiator session
C2_Witness ==
    /\ call.op = "create_session"
    /\ ~call.is_initiator
    /\ ret.raised = "DuplicateSession"
    /\ call.node \in DOMAIN sessions
    /\ sessions[call.node].role = "SessionInitiator"

\* C3: get_session(n) returns the session last created for n and not removed
\* since; it raises SessionNotFound exactly when has_session(n) is false; it
\* never changes the session map.
C3_GetSession ==
    [][call'.op = "get_session"
        => /\ sessions' = sessions
           /\ (ret'.raised = "SessionNotFound") <=> ~has_session(call'.node)
           /\ ret'.raised \in {"SessionNotFound", "None"}
           /\ ret'.raised = "None" =>
                /\ live[call'.node] # 0
                /\ ret'.value = live[call'.node]
           /\ ret'.raised = "SessionNotFound" => live[call'.node] = 0]_vars

\* get_session returned the second session of a node whose first was removed
C3_Witness ==
    /\ call.op = "get_session"
    /\ ret.raised = "None"
    /\ ret.value >= 2
    /\ Cardinality(DOMAIN sessions) = 1

\* C4: remove_session(u) removes exactly the session whose uuid is u and
\* returns True; with no such session it returns False and changes nothing;
\* every session with another uuid stays registered under its node id.
C4_RemoveSession ==
    [][call'.op = "remove_session"
        => LET u == call'.session_id
               hit == {k \in DOMAIN sessions : sessions[k].session_id = u}
           IN /\ Cardinality(hit) <= 1
              /\ ret'.raised = "None"
              /\ ret'.value = (hit # {})
              /\ DOMAIN sessions' = DOMAIN sessions \ hit
              /\ \A k \in DOMAIN sessions \ hit :
                    /\ sessions'[k] = sessions[k]
                    /\ sessions[k].remote_node_id = k]_vars

\* a session was removed while the session of another node stayed
C4_Witness ==
    /\ call.op = "remove_session"
    /\ ret = Returned(TRUE)
    /\ Cardinality(DOMAIN sessions) = 1

\* C5 as stated: get_idle_sesssions returns exactly the sessions whose last
\* message is older than now - SESSION_IDLE_TIMEOUT, and removes none.
C5_IdleStrictlyOlder ==
    [][call'.op = "get_idle_sesssions"
        => /\ sessions' = sessions
           /\ ret'.value = {s.session_id : s \in
                  {x \in Values(sessions) :
                      x.last_message_at < now - SESSION_IDLE_TIMEOUT}}]_vars

\* C5, amended: get_idle_sesssions returns exactly the sessions whose last
\* message is at or before now - SESSION_IDLE_TIMEOUT, and removes none.
C5_IdleAtOrBefore ==
    [][call'.op = "get_idle_sesssions"
        => /\ sessions' = sessions
           /\ ret'.raised = "None"
           /\ ret'.value = {s.session_id : s \in
                  {x \in Values(sessions) :
                      x.last_message_at <= now - SESSION_IDLE_TIMEOUT}}]_vars

\* get_idle_sesssions returned one session and left a fresher one out
C5_Witness ==
    /\ call.op = "get_idle_sesssions"
    /\ Cardinality(ret.value) = 1
    /\ Cardinality(DOMAIN sessions) = 2

\* C17: create_session(n, ...) on a node with no live session, in particular
\* a node whose session remove_session has removed, however often that
\* happened before, succeeds and registers a session with a fresh uuid for n;
\* get_session(n) returns the session created last for n, never a removed one.
C17_CreateAfterRemove ==
    [][/\ (call'.op = "create_session" /\ live[call'.node] = 0)
            => /\ ret' = Returned(next_uuid)
               /\ call'.node \in DOMAIN sessions'
               /\ sessions'[call'.node].session_id = next_uuid
               /\ sessions'[call'.node].remote_node_id = call'.node
               /\ live'[call'.node] = next_uuid
       /\ (call'.op = "remove_session" /\ ret' = Returned(TRUE))
            => \A n \in Remote :
                  live[n] = call'.session_id => (~has_session(n)' /\ live'[n] = 0)
       /\ (call'.op = "get_session" /\ live[call'.node] # 0)
            => ret' = Returned(live[call'.node])]_vars

\* node 4 has kept session 1, so that sessions 2 and 3 were both created for
\* node 3, the latter after the former was removed; get_session(3) returned it
C17_Witness ==
    /\ DOMAIN sessions = {3, 4}
    /\ sessions[4].session_id = 1
    /\ sessions[3].session_id = 3
    /\ call = [op |-> "get_session", node |-> 3]
    /\ ret = Returned(3)

\* C18: every entry of the session map is keyed by the remote node id of the
\* session it holds, so that the pop of remove_session, by the remote node id
\* of the session it found, always finds its key and deletes that session's
\* own entry.
C18_KeyedByRemoteNode ==
    /\ \A k \in DOMAIN sessions : sessions[k].remote_node_id = k
    /\ ret.raised # "KeyError"
    /\ \A n \in Remote : live[n] # 0 <=> has_session(n)
    /\ \A n \in DOMAIN sessions : sessions[n].session_id = live[n]

\* of three sessions the second was removed earlier and the first is removed
\* now, by its uuid: the entry that stays is the third session's, under its
\* own node
C18_Witness ==
    /\ next_uuid = 4
    /\ call = [op |-> "remove_session", session_id |-> 1]
    /\ ret = Returned(TRUE)
    /\ \E n \in Remote :
          /\ DOMAIN sessions = {n}
          /\ sessions[n].session_id = 3
          /\ sessions[n].remote_node_id = n

\* the session with uuid u is registered
Registered(u) == \E k \in DOMAIN sessions : sessions[k].session_id = u

\* the session with uuid u is registered and its last message came at time t
LastMessageAt(u, t) ==
    \E k \in DOMAIN sessions :
        sessions[k].session_id = u /\ sessions[k].last_message_at = t

WireMessages ==
    LET carrying == SelectSeq(wire, LAMBDA p : p.message.id # 0)
    IN [i \in 1..Len(carrying) |-> carrying[i].message]

C6_OldestFirstUntilPong ==
    /\ IsPrefix(cycle.pinged, cycle.bucket)
    /\ \A i \in 1..(Len(cycle.pinged) - 1) : cycle.pinged[i] \in cycle.timed_out
    /\ cycle.ponged # {} =>
          /\ ping_pc # "ping"
          /\ cycle.ponged = {Last(cycle.pinged)}
    /\ ping_pc = "ping" =>
          /\ ping_todo # << >>
          /\ Head(ping_todo) = Last(cycle.pinged)
          /\ Head(ping_todo) \notin cycle.timed_out

\* in a bucket of two or more the oldest peer timed out and the next oldest,
\* pinged after it, answered: the cycle is over
C6_Witness ==
    /\ Len(cycle.bucket) >= 2
    /\ cycle.pinged = SubSeq(cycle.bucket, 1, 2)
    /\ cycle.timed_out = {cycle.bucket[1]}
    /\ cycle.ponged = {cycle.bucket[2]}
    /\ ping_pc = "sleep"

\* C7: a step takes a peer out of the buckets if and only if it is the
\* timeout of the Ping the daemon sent to that peer in the running cycle; a
\* peer that answered, or that was not pinged, is not removed.
C7_RemovedIffTimedOut ==
    [][\A n \in NodeID :
          (n \in Range(table) /\ n \notin Range(table'))
          <=> /\ ping_pc = "ping"
              /\ n = Head(ping_todo)
              /\ n = Last(cycle.pinged)
              /\ n \notin cycle.timed_out
              /\ n \in cycle'.timed_out
              /\ n \notin cycle'.ponged]_vars

\* a cycle removed a peer that timed out and kept the peer that answered
C7_Witness ==
    /\ cycle.timed_out # {}
    /\ cycle.ponged # {}
    /\ cycle.timed_out \cap Range(table) = {}
    /\ cycle.ponged \subseteq Range(table)
    /\ cycle.quiet

\* the step that ends a cycle on a bucket that was full, with no pong at all
FullCycleEnds ==
    /\ ping_pc = "ping"
    /\ ping_pc' = "sleep"
    /\ Len(cycle.bucket) = BucketSize
    /\ cycle'.ponged = {}

\* C8 as stated, for a cycle no other task interferes with: when the bucket
\* was full and none of its peers responded, the cycle removes them all and
\* the bucket ends with size 0.
C8_BucketEndsEmpty ==
    [][(FullCycleEnds /\ cycle.quiet)
        => /\ Range(cycle.bucket) \cap Range(table') = {}
           /\ Len(Bucket(cycle.distance)') = 0]_vars

\* C8, amended: when the bucket was full and none of its peers responded, the
\* cycle pings all of them and each times out (and so is removed); every
\* removal promotes the most recent replacement candidate, so that, with no
\* update by another task during the cycle, the bucket ends holding exactly
\* the former replacement candidates and the cache ends empty: the size is 0
\* only when there was no candidate.
C8_AllRemovedCandidatesPromoted ==
    [][FullCycleEnds
        => /\ cycle'.timed_out = Range(cycle.bucket)
           /\ cycle.quiet =>
                /\ Range(cycle.bucket) \cap Range(table') = {}
                /\ Bucket(cycle.distance)' = Reverse(cycle.cache)
                /\ replacement_cache'[cycle.distance] = << >>]_vars

\* a full bucket with a replacement candidate went through a quiet cycle
\* without a pong: its peers are gone and the candidate sits in the bucket
C8_Witness ==
    /\ ping_pc = "sleep"
    /\ Len(cycle.bucket) = BucketSize
    /\ cycle.timed_out = Range(cycle.bucket)
    /\ cycle.cache # << >>
    /\ cycle.quiet
    /\ Bucket(cycle.distance) = Reverse(cycle.cache)

\* --------------------------------------------------- responder claims

\* C9: handling a FindNodes request makes one send_found_nodes call,
\* addressed to the requesting node with the request's own request_id; for
\* distance 0 the reply holds the local node and nothing else, otherwise
\* exactly the nodes that are in the bucket of that log distance at that moment.
C9_FoundNodesReply ==
    [][/\ lookup_reply' # lookup_reply => lookup_pc' # lookup_pc
       /\ (lookup_pc = "receive" /\ lookup_pc' = "send") =>
            LET request == Head(find_nodes_inbox)
                found == lookup_reply'.found_nodes
                in_bucket == {n \in Range(table) : LogDistance(n) = request.distance}
            IN /\ find_nodes_inbox' = Tail(find_nodes_inbox)
               /\ lookup_reply'.type = "FoundNodes"
               /\ lookup_reply'.node = request.node
               /\ lookup_reply'.request_id = request.request_id
               /\ request.distance = 0 => found = <<local_node>>
               /\ request.distance # 0 =>
                    /\ {x.node_id : x \in Range(found)} = in_bucket
                    /\ Len(found) = Cardinality(in_bucket)
                    /\ \A x \in Range(found) : x.endpoint = get_endpoint(x.node_id)
       /\ (lookup_pc = "send" /\ lookup_pc' = "receive") =>
            /\ lookup_reply' = NoMessage
            /\ find_nodes_inbox' = find_nodes_inbox]_vars

\* node 4 is being sent the two nodes of a bucket, under its request id
C9_Witness ==
    /\ lookup_pc = "send"
    /\ lookup_reply.node = 4
    /\ lookup_reply.request_id = 2
    /\ Len(lookup_reply.found_nodes) = 2

\* C10: while the service runs, every Ping delivered to the ping responder
\* is eventually answered with one Pong: receiving takes the oldest waiting
\* Ping and makes one send_pong call, to the node that sent that Ping and with
\* its request_id, and every waiting Ping gets there unless the service is
\* cancelled first.
C10_PingAnswered ==
    /\ [][/\ pong_reply' # pong_reply => pong_pc' # pong_pc
          /\ (pong_pc = "receive" /\ pong_pc' = "send") =>
                LET request == Head(ping_inbox)
                IN /\ ping_inbox' = Tail(ping_inbox)
                   /\ pong_reply' = [type |-> "Pong", node |-> request.node,
                                     request_id |-> request.request_id]
          /\ (pong_pc = "send" /\ pong_pc' = "receive") =>
                /\ pong_reply' = NoMessage
                /\ ping_inbox' = ping_inbox]_vars
    /\ \A i \in 1..MaxInbox :
       \A n \in Requester :
       \A r \in RequestID :
          (/\ manager = "running"
           /\ Len(ping_inbox) >= i
           /\ ping_inbox[i].node = n
           /\ ping_inbox[i].request_id = r)
          ~> \/ manager # "running"
             \/ /\ pong_pc = "send"
                /\ pong_request.node = n
                /\ pong_request.request_id = r
                /\ pong_reply = [type |-> "Pong", node |-> n, request_id |-> r]

\* the Ping of node 4 with request id 2 is being answered
C10_Witness ==
    /\ manager = "running"
    /\ pong_pc = "send"
    /\ pong_request.node = 4
    /\ pong_reply = [type |-> "Pong", node |-> 4, request_id |-> 2]

\* ------------------------------------------------ periodic lookup claims

\* C11: a verification task is started only when a lookup returns, one for
\* each node the lookup returned; a verification that returns reports on its
\* own node, False exactly when its timeout fired, and then leaves the routing
\* table as it was, True when the node answered, and then the node has been
\* through RoutingTable.update.
C11_VerifiedOnceInsertedOnSuccess ==
    [][/\ \A n \in NodeID :
            verifying'[n] > verifying[n]
            => /\ search_pc = "lookup" /\ search_pc' = "sleep"
               /\ n \in found_nodes'
       /\ (search_pc = "lookup" /\ search_pc' = "sleep")
            => \A n \in NodeID :
                  verifying'[n] = verifying[n] + (IF n \in found_nodes' THEN 1 ELSE 0)
       /\ \A n \in NodeID :
            (verifying'[n] < verifying[n] /\ manager' = "running")
            => /\ verifying'[n] = verifying[n] - 1
               /\ verdict'.node = n
               /\ ~verdict'.value => UNCHANGED tableVars
               /\ verdict'.value =>
                     /\ table' = UpdatedTable(n)
                     /\ replacement_cache' = UpdatedCache(n)
                     /\ n \in Range(table') \cup
                              Range(replacement_cache'[LogDistance(n)])]_vars

\* a lookup returned nodes 5 and 6; both verifications are over, the last one
\* by its timeout: its node is not in the table, the other one is
C11_Witness ==
    /\ found_nodes = {5, 6}
    /\ \A n \in NodeID : verifying[n] = 0
    /\ ~verdict.value
    /\ verdict.node \in found_nodes
    /\ verdict.node \notin Range(table)
    /\ (found_nodes \ {verdict.node}) \subseteq Range(table)
    /\ manager = "running"

\* C19: on an empty routing table a tick of the liveness daemon sends no Ping
\* and removes nothing, and a tick of the lookup daemon starts no lookup and
\* no verification; both daemons stay in their loops, and once the table is
\* not empty a later tick of each acts again.
C19_EmptyTableTicksDoNothing ==
    /\ [][(is_empty /\ manager = "running") =>
            /\ ping_pc = "sleep" =>
                  /\ ping_pc' \in {"sleep", "cancelled"}
                  /\ manager' = "running" => ping_pc' = "sleep"
                  /\ ping_todo' = << >>
                  /\ cycle'.pinged \in {cycle.pinged, << >>}
            /\ search_pc = "sleep" =>
                  /\ search_pc' \in {"sleep", "cancelled"}
                  /\ manager' = "running" => search_pc' = "sleep"
                  /\ \A n \in NodeID : verifying'[n] <= verifying[n]
            /\ replacement_cache' = replacement_cache]_vars
    /\ (manager = "running" /\ ~is_empty /\ ping_pc = "sleep")
          ~> (ping_pc = "ping" \/ manager # "running")
    /\ (manager = "running" /\ ~is_empty /\ search_pc = "sleep")
          ~> (search_pc = "lookup" \/ manager # "running" \/ is_empty)

\* the table, which had nodes before (a verification returned, a liveness
\* cycle removed the last node), is empty, the liveness daemon has had a tick
\* on it, and both daemons sleep until their next tick
C19_Witness ==
    /\ manager = "running"
    /\ is_empty
    /\ verdict # NoVerdict
    /\ cycle = NoCycle
    /\ ping_pc = "sleep"
    /\ search_pc = "sleep"
    /\ \A n \in NodeID : verifying[n] = 0

\* C20: the verifications a lookup started run side by side; one that times
\* out returns False for its own node and touches nothing else: the other
\* verifications go on, each to its own verdict, the table stays as it was,
\* and the lookup daemon stays where it was and runs its next lookup.
C20_TimeoutIsLocal ==
    /\ [][\A n \in NodeID :
            (verifying'[n] < verifying[n] /\ manager' = "running" /\ ~verdict'.value)
            => /\ verdict'.node = n
               /\ verifying'[n] = verifying[n] - 1
               /\ \A m \in NodeID \ {n} : verifying'[m] = verifying[m]
               /\ UNCHANGED <<search_pc, found_nodes, manager, tableVars>>]_vars
    /\ \A m \in Discovered :
          (manager = "running" /\ verifying[m] > 0)
          ~> (manager # "running" \/ verdict.node = m)
    /\ (manager = "running" /\ ~is_empty /\ search_pc = "sleep")
          ~> (search_pc = "lookup" \/ manager # "running")

\* the verification of node 5 timed out; that of node 6, started by the same
\* lookup, still runs, and the daemon is in its next lookup
C20_Witness ==
    /\ manager = "running"
    /\ found_nodes = {5, 6}
    /\ verdict = [node |-> 5, value |-> FALSE]
    /\ verifying[5] = 0
    /\ verifying[6] = 1
    /\ search_pc = "lookup"

\* ------------------------------------------------------ service claims

\* a step in which no daemon does anything but end: nothing is removed from
\* the routing table and nothing added but by the network's own update on a
\* node that talks, no ping, verification or reply is started, nothing is
\* logged, and a daemon that changes place has ended
NoDaemonWork ==
    /\ \/ UNCHANGED tableVars
       \/ \E n \in Talking :
             /\ table' = UpdatedTable(n)
             /\ replacement_cache' = UpdatedCache(n)
    /\ ping_todo' \in {ping_todo, << >>}
    /\ cycle'.pinged = cycle.pinged
    /\ cycle'.timed_out = cycle.timed_out
    /\ \A n \in NodeID : verifying'[n] <= verifying[n]
    /\ verdict' = verdict
    /\ lookup_reply' \in {lookup_reply, NoMessage}
    /\ pong_reply' \in {pong_reply, NoMessage}
    /\ reported' = reported
    /\ \A pc \in {<<ping_pc, ping_pc'>>, <<lookup_pc, lookup_pc'>>,
                   <<pong_pc, pong_pc'>>, <<search_pc, search_pc'>>,
                   <<report_pc, report_pc'>>} :
          pc[2] = pc[1] \/ pc[2] \in Terminal

\* C12: once the service is cancelled, each of the five daemons ends, at
\* whatever await it was, and the shutdown completes; from the cancellation on
\* no daemon starts anything, and when the shutdown is complete all five have
\* ended for good, with no ping, verification or reply in flight.
C12_ShutdownTerminatesAll ==
    /\ (manager = "cancelling") ~> (manager = "finished")
    /\ [][/\ manager = "cancelling" => NoDaemonWork
          /\ manager = "finished" =>
               /\ NoDaemonWork
               /\ manager' = "finished"
               /\ {ping_pc, lookup_pc, pong_pc, search_pc, report_pc}
                      \subseteq Terminal
               /\ UNCHANGED <<ping_pc, lookup_pc, pong_pc, search_pc, report_pc>>
               /\ ping_todo = << >>
               /\ \A n \in NodeID : verifying[n] = 0
               /\ lookup_reply = NoMessage
               /\ pong_reply = NoMessage]_vars

\* the shutdown is complete; it caught the liveness daemon waiting for a pong
\* and the others at their awaits, and each of them ended by Cancelled
C12_Witness ==
    /\ manager = "finished"
    /\ cycle.pinged # << >>
    /\ Last(cycle.pinged) \notin cycle.timed_out \cup cycle.ponged
    /\ {ping_pc, lookup_pc, pong_pc, search_pc, report_pc} = {"cancelled"}

\* C13: the dispatcher lists the FindNodes subscriber exactly while
\* _handle_lookup_requests is inside its `with` block (receiving or sending),
\* and the Ping subscriber exactly while _pong_when_pinged is inside its own;
\* a responder that has ended, by leaving its loop, by Cancelled or by an
\* error in receive or send, is no longer listed.
C13_SubscribedWhileRunning ==
    /\ "FindNodes" \in subscriptions <=> lookup_pc \in {"receive", "send"}
    /\ "Ping" \in subscriptions <=> pong_pc \in {"receive", "send"}
    /\ lookup_pc \in Terminal => "FindNodes" \notin subscriptions
    /\ pong_pc \in Terminal => "Ping" \notin subscriptions

\* the FIND_NODES responder ended by an error, which cancelled the service;
\* the ping responder, whose send had returned, left its loop; neither is
\* subscribed any more
C13_Witness ==
    /\ lookup_pc = "failed"
    /\ pong_pc = "exited"
    /\ subscriptions = {}
    /\ manager = "finished"

\* ------------------------------------------------- routing table claims

\* the routing table is whole: no node twice in the buckets, none both in a
\* bucket and in a replacement cache, no bucket or cache over K, and a
\* replacement candidate waits only while its bucket is full
TableWhole ==
    /\ \A i \in 1..Len(table) : \A j \in 1..Len(table) :
          table[i] = table[j] => i = j
    /\ \A d \in 1..NumBuckets :
          /\ Len(Bucket(d)) <= BucketSize
          /\ Len(replacement_cache[d]) <= BucketSize
          /\ Range(replacement_cache[d]) \cap Range(table) = {}
          /\ \A n \in Range(replacement_cache[d]) : LogDistance(n) = d
          /\ replacement_cache[d] # << >> => Len(Bucket(d)) = BucketSize

\* C15: every state of the routing table a daemon can read is whole; a tick
\* of the liveness daemon takes its log distance and its candidates from one
\* state of the table: the candidates are the whole least recently updated
\* bucket of that state, never empty; and a FindNodes request is answered from
\* one state of the table too: the reply holds the whole bucket of the state
\* in which the request was received, whatever was updated or removed before
\* and is afterwards.
C15_TableReadWhole ==
    [][/\ TableWhole
       /\ TableWhole'
       /\ (ping_pc = "sleep" /\ manager = "running" /\ cycle' # cycle
               /\ UNCHANGED tableVars /\ ~is_empty)
            => /\ ping_pc' = "ping"
               /\ ping_todo' = Bucket(LogDistance(Head(table)))
               /\ ping_todo' # << >>
               /\ cycle'.bucket = ping_todo'
       /\ (lookup_pc = "receive" /\ lookup_pc' = "send")
            => /\ UNCHANGED tableVars
               /\ LET request == Head(find_nodes_inbox)
                  IN request.distance # 0 =>
                        [i \in 1..Len(lookup_reply'.found_nodes) |->
                            lookup_reply'.found_nodes[i].node_id]
                        = Reverse(Bucket(request.distance))]_vars

\* during a liveness cycle that has removed a peer and seen another task
\* update the table, the responder is sending a full bucket
C15_Witness ==
    /\ ping_pc = "ping"
    /\ cycle.timed_out # {}
    /\ ~cycle.quiet
    /\ lookup_pc = "send"
    /\ Len(lookup_reply.found_nodes) = BucketSize

====
